---------------------------- MODULE Spec2Model ----------------------------
(***************************************************************************)
(* Model of main.py: the Router's routing decision, the four RAG stages    *)
(* (search -> validate -> summarize -> answer), RAGFlow.run, and the       *)
(* ConversationAgent's history.                                            *)
(*                                                                         *)
(* A Python str is a sequence of one-character strings, so that slicing,   *)
(* stripping and regular-expression matching are computed character by     *)
(* character.  A Python dict is a function from its keys; a missing key is *)
(* a key outside DOMAIN.  A Python float that takes part in arithmetic is  *)
(* an IEEE-754 double, kept as the pair <<hi, lo>> of the integer          *)
(* hi * 2^28 + lo counting units of 2^-53.  A call that returns v is       *)
(* [ok |-> TRUE, val |-> v]; a call that raises KeyError(k) is             *)
(* [ok |-> FALSE, exc |-> "KeyError", key |-> k].                          *)
(***************************************************************************)
EXTENDS Integers, Sequences, FiniteSets, TLC

VARIABLES history, clock, ncalls, backend, call

vars == <<history, clock, ncalls, backend, call>>

\* ------------------------------------------------------------- bounds

\* Most lexical segments concatenated into one Router input.
MaxSegments == 3

\* Most results in one response of the search backend.
MaxResults == 3

\* Most get_reply calls on one agent.
MaxCalls == 2

\* Latest reading of the clock behind now_ts().
MaxClock == 1

\* ------------------------------------------------------ str utilities

Digits == {"0", "1", "2", "3", "4", "5", "6", "7", "8", "9"}

LowerLetters == <<"a", "b", "c", "d", "e", "f", "g", "h", "i", "j", "k", "l", "m", "n", "o", "p", "q", "r", "s", "t", "u", "v", "w", "x", "y", "z">>

UpperLetters == <<"A", "B", "C", "D", "E", "F", "G", "H", "I", "J", "K", "L", "M", "N", "O", "P", "Q", "R", "S", "T", "U", "V", "W", "X", "Y", "Z">>

Range(f) == {f[i] : i \in DOMAIN f}

WordChars == Range(LowerLetters) \cup Range(UpperLetters) \cup Digits \cup {"_"}

\* \w of the re module, on the characters used here.
IsWord(c) == c \in WordChars

\* \d
IsDigit(c) == c \in Digits

\* What str.strip() and str.rstrip() remove.
IsSpace(c) == c \in {" ", "\n", "\t"}

LowerOf == [c \in Range(UpperLetters) |->
               LowerLetters[CHOOSE i \in 1..26 : UpperLetters[i] = c]]

\* Case folding of re.I.
Lower(c) == IF c \in DOMAIN LowerOf THEN LowerOf[c] ELSE c

Min(a, b) == IF a < b THEN a ELSE b

\* s[:n]
Prefix(s, n) == SubSeq(s, 1, Min(n, Len(s)))

RECURSIVE rstrip(_)
\* str.rstrip()
rstrip(s) ==
    IF s # <<>> /\ IsSpace(s[Len(s)]) THEN rstrip(SubSeq(s, 1, Len(s) - 1)) ELSE s

RECURSIVE lstrip(_)
lstrip(s) == IF s # <<>> /\ IsSpace(s[1]) THEN lstrip(Tail(s)) ELSE s

\* str.strip()
strip(s) == rstrip(lstrip(s))

\* The literal w stands in s at index i (folding case when ci).
MatchAt(s, i, w, ci) ==
    /\ i + Len(w) - 1 <= Len(s)
    /\ \A k \in 1..Len(w) :
          IF ci THEN Lower(s[i + k - 1]) = Lower(w[k]) ELSE s[i + k - 1] = w[k]

\* \b just before index i of s (i = Len(s) + 1: at the end).
WordBoundary(s, i) ==
    LET before == i > 1 /\ IsWord(s[i - 1])
        after  == i <= Len(s) /\ IsWord(s[i])
    IN  before # after

\* re.search(r"\b(w1|w2|...)\b", s) for literals w1, w2, ...
SearchBounded(s, words, ci) ==
    \E i \in 1..Len(s) :
        /\ WordBoundary(s, i)
        /\ \E w \in words :
              /\ MatchAt(s, i, w, ci)
              /\ WordBoundary(s, i + Len(w))

\* ----------------------------------------------------------- float

\* The doubles of the literals 0.0, 1.0, 2.0, 0.8, 0.7 and 1.5.
F_0_0 == <<0, 0>>

F_1_0 == <<33554432, 0>>

F_2_0 == <<67108864, 0>>

F_0_8 == <<26843545, 161061274>>

F_0_7 == <<23488102, 107374182>>

F_1_5 == <<50331648, 0>>

Limb == 2 ^ 28

\* Bits a sum of these doubles has beyond the 53 a double keeps.
ExtraBits(hi) ==
    IF hi < 2 ^ 25 THEN 0
    ELSE IF hi < 2 ^ 26 THEN 1
    ELSE IF hi < 2 ^ 27 THEN 2
    ELSE 3

\* Round to nearest, ties to even: what the float + does to the exact sum.
RoundDouble(x) ==
    LET d    == ExtraBits(x[1])
        unit == 2 ^ d
        q    == x[2] \div unit
        r    == x[2] % unit
        up   == 2 * r > unit \/ (2 * r = unit /\ q % 2 = 1)
        lo   == (IF up THEN q + 1 ELSE q) * unit
    IN  IF lo = Limb THEN <<x[1] + 1, 0>> ELSE <<x[1], lo>>

\* a + b on floats
FAdd(a, b) ==
    LET lo == a[2] + b[2]
    IN  RoundDouble(<<a[1] + b[1] + lo \div Limb, lo % Limb>>)

\* a >= b on floats
FGe(a, b) == a[1] > b[1] \/ (a[1] = b[1] /\ a[2] >= b[2])

\* a > b, the comparison a threshold off by one ulp would make
FGt(a, b) == a[1] > b[1] \/ (a[1] = b[1] /\ a[2] > b[2])

\* ---------------------------------------------------------- Router

QUESTION_WORDS ==
    {<<"w", "h", "o">>, <<"w", "h", "a", "t">>, <<"w", "h", "e", "n">>, <<"w", "h", "e", "r", "e">>, <<"w", "h", "y">>, <<"h", "o", "w">>, <<"w", "h", "i", "c", "h">>}

TRIGGER_TOKENS ==
    {<<"s", "e", "a", "r", "c", "h", ":">>, <<"l", "o", "o", "k", "u", "p", ":">>, <<"c", "i", "t", "e", ":">>, <<"s", "o", "u", "r", "c", "e", "s", ":">>, <<"v", "e", "r", "i", "f", "y", ":">>}

SOURCE_WORDS ==
    {<<"s", "o", "u", "r", "c", "e">>, <<"c", "i", "t", "e">>, <<"r", "e", "f", "e", "r", "e", "n", "c", "e">>, <<"e", "v", "i", "d", "e", "n", "c", "e">>, <<"s", "t", "a", "t", "s">>, <<"d", "a", "t", "a">>}

\* re.search(r"\b(\d{4}|\d+%|%|\bexactly\b|\bprecisely\b)\b", msg)
SpecificityMatch(msg) ==
    \/ \E i \in 1..Len(msg) :
          /\ WordBoundary(msg, i)
          /\ i + 3 <= Len(msg)
          /\ \A k \in 0..3 : IsDigit(msg[i + k])
          /\ WordBoundary(msg, i + 4)
    \/ \E i \in 1..Len(msg) : \E j \in (i + 1)..Len(msg) :
          /\ WordBoundary(msg, i)
          /\ \A k \in i..(j - 1) : IsDigit(msg[k])
          /\ msg[j] = "%"
          /\ WordBoundary(msg, j + 1)
    \/ \E j \in 1..Len(msg) :
          /\ msg[j] = "%"
          /\ WordBoundary(msg, j)
          /\ WordBoundary(msg, j + 1)
    \/ SearchBounded(msg, {<<"e", "x", "a", "c", "t", "l", "y">>, <<"p", "r", "e", "c", "i", "s", "e", "l", "y">>}, FALSE)

\* should_route = total > 1.5
ShouldRouteStrict(total) == FGt(total, F_1_5)

\* should_route = total >= 1.5
ShouldRoute(total) == FGe(total, F_1_5)

\* Router.is_specific_question: <<should_route, scores>>
is_specific_question(message) ==
    LET msg == strip(message)
        scores ==
            [question_word |-> IF SearchBounded(msg, QUESTION_WORDS, TRUE) THEN F_1_0 ELSE F_0_0,
             trigger       |-> IF SearchBounded(msg, TRIGGER_TOKENS, TRUE) THEN F_2_0 ELSE F_0_0,
             source_word   |-> IF SearchBounded(msg, SOURCE_WORDS, TRUE) THEN F_0_8 ELSE F_0_0,
             length        |-> IF SpecificityMatch(msg) THEN F_0_7 ELSE F_0_0]
        total == FAdd(FAdd(FAdd(scores.question_word, scores.trigger),
                           scores.source_word), scores.length)
    IN  <<ShouldRoute(total), scores>>

\* ------------------------------------------- Router on bounded inputs

\* Lexical pieces the Router's inputs are built from.
RouterSegments ==
    {<<"s", "e", "a", "r", "c", "h", ":">>, <<"L", "O", "O", "K", "U", "P", ":">>, <<"c", "i", "t", "e", ":">>, <<"S", "o", "u", "r", "c", "e", "s", ":">>, <<"v", "e", "r", "i", "f", "y", ":">>,
     <<"h", "o", "w", " ">>, <<"d", "a", "t", "a">>, <<"2", "0", "2", "0">>, <<"%">>, <<"e", "x", "a", "c", "t", "l", "y">>, <<" ">>, <<"x">>}

RECURSIVE Concats(_, _)
\* Every concatenation of at most n members of segs.
Concats(segs, n) ==
    IF n = 0 THEN {<<>>}
    ELSE LET shorter == Concats(segs, n - 1)
         IN  shorter \cup {m \o s : m \in shorter, s \in segs}

RouterMessages == Concats(RouterSegments, MaxSegments)

InitRouter ==
    /\ history = <<>>
    /\ clock = 0
    /\ ncalls = 0
    /\ backend = <<>>
    /\ call \in {[fn |-> "pending", op |-> "is_specific_question", arg |-> m] :
                    m \in RouterMessages}

\* router.is_specific_question(message)
Decide ==
    /\ call.fn = "pending"
    /\ call.op = "is_specific_question"
    /\ call' = [fn |-> "is_specific_question", arg |-> call.arg,
                ret |-> is_specific_question(call.arg)]
    /\ UNCHANGED <<history, clock, ncalls, backend>>

NextRouter == Decide

SpecRouter == InitRouter /\ [][NextRouter]_vars


\* ------------------------------------------- Router claims

\* The trigger token w occurs somewhere in s, in any letter case.
ContainsToken(s, w) == \E i \in 1..Len(s) : MatchAt(s, i, w, TRUE)

\* C1: every message that contains an explicit trigger token anywhere, whatever
\* follows the colon, is routed (should_route = true) with scores['trigger'] = 2.0.
C1_TriggerTokenAlwaysRoutes ==
    (/\ call.fn = "is_specific_question"
     /\ \E w \in TRIGGER_TOKENS : ContainsToken(call.arg, w))
    => (call.ret[1] = TRUE /\ call.ret[2].trigger = F_2_0)

Matched(score) == IF score = F_0_0 THEN 0 ELSE 1

\* C2: should_route is true exactly when the matched weights (1.0, 2.0, 0.8, 0.7,
\* here in tenths) sum to at least 1.5; the scores hold exactly the four entries,
\* each 0 or its weight; the empty message scores all zero and is not routed.
C2_RouteIffWeightsReachThreshold ==
    call.fn = "is_specific_question" =>
        LET route  == call.ret[1]
            scores == call.ret[2]
            tenths == 10 * Matched(scores.question_word) + 20 * Matched(scores.trigger)
                      + 8 * Matched(scores.source_word) + 7 * Matched(scores.length)
        IN  /\ DOMAIN scores = {"question_word", "trigger", "source_word", "length"}
            /\ scores.question_word \in {F_0_0, F_1_0}
            /\ scores.trigger \in {F_0_0, F_2_0}
            /\ scores.source_word \in {F_0_0, F_0_8}
            /\ scores.length \in {F_0_0, F_0_7}
            /\ route = (tenths >= 15)
            /\ (call.arg = <<>> =>
                   /\ route = FALSE
                   /\ \A k \in DOMAIN scores : scores[k] = F_0_0)

\* Only source_word (0.8) and length (0.7) matched: the sum is exactly the threshold.
C2_Witness_SumExactlyThreshold ==
    /\ call.fn = "is_specific_question"
    /\ call.ret[2].question_word = F_0_0
    /\ call.ret[2].trigger = F_0_0
    /\ call.ret[2].source_word = F_0_8
    /\ call.ret[2].length = F_0_7
    /\ call.ret[1] = TRUE

\* ---------------------------------------------------------- RAGFlow

Ok(v) == [ok |-> TRUE, val |-> v]

KeyError(k) == [ok |-> FALSE, exc |-> "KeyError", key |-> k]

\* d.get(k, default)
Get(d, k, default) == IF k \in DOMAIN d THEN d[k] ELSE default

DigitChar == <<"0", "1", "2", "3", "4", "5", "6", "7", "8", "9">>

RECURSIVE Str(_)
\* str(n), the {i} of an f-string, for n >= 0
Str(n) == IF n < 10 THEN <<DigitChar[n + 1]>> ELSE Str(n \div 10) \o <<DigitChar[(n % 10) + 1]>>

\* RAGFlow.__init__(max_results=8)
max_results == 8

\* The stub of RAGFlow.search.  score is float(1.0 / (i + 1)), which nothing
\* reads: it is kept as the quotient it rounds.
fake_results(question, now) ==
    [j \in 1..max_results |->
        LET i == j - 1
        IN  [title      |-> <<"R", "e", "s", "u", "l", "t", " ">> \o Str(i) \o <<" ", "f", "o", "r", ":", " ">> \o question,
             url        |-> <<"h", "t", "t", "p", "s", ":", "/", "/", "e", "x", "a", "m", "p", "l", "e", ".", "c", "o", "m", "/", "r", "e", "s", "u", "l", "t", "-">> \o Str(i),
             snippet    |-> <<"S", "n", "i", "p", "p", "e", "t", " ">> \o Str(i) \o <<" ", "s", "u", "m", "m", "a", "r", "i", "z", "i", "n", "g", " ", "c", "o", "n", "t", "e", "n", "t", " ", "r", "e", "l", "e", "v", "a", "n", "t", " ", "t", "o", " ", "'">>
                            \o question \o <<"'", ".", ".", ".">>,
             score      |-> [num |-> 1, den |-> i + 1],
             fetched_at |-> now]]

\* RAGFlow.search: the stub, or the retrieval integration its docstring asks to
\* put in its place, which returns whatever results the backend gives.
search(question, now, b) ==
    IF b.kind = "stub" THEN fake_results(question, now) ELSE b.results

\* Length of the match of https?://(www\.)? at index i of s, 0 when there is none.
SchemeLen(s, i) ==
    LET h == IF MatchAt(s, i, <<"h", "t", "t", "p", "s", ":", "/", "/">>, FALSE) THEN 8
             ELSE IF MatchAt(s, i, <<"h", "t", "t", "p", ":", "/", "/">>, FALSE) THEN 7
             ELSE 0
    IN  IF h = 0 THEN 0
        ELSE IF MatchAt(s, i + h, <<"w", "w", "w", ".">>, FALSE) THEN h + 4
        ELSE h

RECURSIVE SubScheme(_, _)
\* re.sub(r"https?://(www\.)?", "", s), from index i on
SubScheme(s, i) ==
    IF i > Len(s) THEN <<>>
    ELSE LET n == SchemeLen(s, i)
         IN  IF n > 0 THEN SubScheme(s, i + n) ELSE <<s[i]>> \o SubScheme(s, i + 1)

\* s.split("/")[0]
SplitFirst(s) ==
    LET cut == {i \in 1..Len(s) : s[i] = "/"}
    IN  IF cut = {} THEN s
        ELSE SubSeq(s, 1, (CHOOSE i \in cut : \A j \in cut : i <= j) - 1)

\* domain = re.sub(r"https?://(www\.)?", "", r["url"]).split("/")[0]
DomainOf(url) == SplitFirst(SubScheme(url, 1))

\* len(r.get("snippet", "")) < 20
MinSnippetLen == 20

RECURSIVE ValidateFrom(_, _, _, _)
\* The loop of RAGFlow.validate from results[i] on.
ValidateFrom(results, i, filtered, seen_domains) ==
    IF i > Len(results) THEN Ok(filtered)
    ELSE LET r == results[i]
         IN  IF "url" \notin DOMAIN r THEN KeyError("url")
             ELSE LET domain == DomainOf(r.url)
                  IN  IF domain \in seen_domains
                      THEN ValidateFrom(results, i + 1, filtered, seen_domains)
                      ELSE IF Len(Get(r, "snippet", <<>>)) < MinSnippetLen
                      THEN ValidateFrom(results, i + 1, filtered, seen_domains)
                      ELSE ValidateFrom(results, i + 1, Append(filtered, r),
                                        seen_domains \cup {domain})

RECURSIVE ValidateNoSeen(_, _, _)
\* The loop without the seen_domains test.
ValidateNoSeen(results, i, filtered) ==
    IF i > Len(results) THEN Ok(filtered)
    ELSE LET r == results[i]
         IN  IF "url" \notin DOMAIN r THEN KeyError("url")
             ELSE IF Len(Get(r, "snippet", <<>>)) < MinSnippetLen
             THEN ValidateNoSeen(results, i + 1, filtered)
             ELSE ValidateNoSeen(results, i + 1, Append(filtered, r))

\* validate without "if domain in seen_domains: continue"
validate_no_dedup(results) == ValidateNoSeen(results, 1, <<>>)

RECURSIVE ValidateInsertFront(_, _, _, _)
\* The loop with filtered.insert(0, r) for filtered.append(r).
ValidateInsertFront(results, i, filtered, seen_domains) ==
    IF i > Len(results) THEN Ok(filtered)
    ELSE LET r == results[i]
         IN  IF "url" \notin DOMAIN r THEN KeyError("url")
             ELSE LET domain == DomainOf(r.url)
                  IN  IF domain \in seen_domains
                      THEN ValidateInsertFront(results, i + 1, filtered, seen_domains)
                      ELSE IF Len(Get(r, "snippet", <<>>)) < MinSnippetLen
                      THEN ValidateInsertFront(results, i + 1, filtered, seen_domains)
                      ELSE ValidateInsertFront(results, i + 1, <<r>> \o filtered,
                                               seen_domains \cup {domain})

\* validate building filtered back to front
validate_insert_front(results) == ValidateInsertFront(results, 1, <<>>, {})

\* RAGFlow.validate
validate(results) == ValidateFrom(results, 1, <<>>, {})

\* s[:200], len(s) > 200
SummaryLen == 200

Ellipsis == <<".", ".", ".">>

\* brief with len(s) >= 200 for len(s) > 200
brief_ge(s) ==
    rstrip(Prefix(s, SummaryLen)) \o (IF Len(s) >= SummaryLen THEN Ellipsis ELSE <<>>)

\* brief = s[:200].rstrip() + ("..." if len(s) > 200 else "")
brief(s) ==
    rstrip(Prefix(s, SummaryLen)) \o (IF Len(s) > SummaryLen THEN Ellipsis ELSE <<>>)

RECURSIVE SummarizeFrom(_, _, _)
\* The loop of RAGFlow.summarize from validated[i] on.
SummarizeFrom(validated, i, outputs) ==
    IF i > Len(validated) THEN Ok(outputs)
    ELSE LET r == validated[i]
             s == Get(r, "snippet", <<>>)
         IN  IF "url" \notin DOMAIN r THEN KeyError("url")
             ELSE IF "title" \notin DOMAIN r THEN KeyError("title")
             ELSE SummarizeFrom(validated, i + 1,
                     Append(outputs, [source |-> r.url, title |-> r.title,
                                      summary |-> brief(s)]))

\* RAGFlow.summarize
summarize(validated) == SummarizeFrom(validated, 1, <<>>)

\* top = summaries[:2]
TopCount == 2

RECURSIVE Join(_, _)
\* sep.join(parts)
Join(sep, parts) ==
    IF parts = <<>> THEN <<>>
    ELSE IF Len(parts) = 1 THEN parts[1]
    ELSE parts[1] \o sep \o Join(sep, Tail(parts))

NoSourcesAnswer == <<"I", " ", "c", "o", "u", "l", "d", "n", "'", "t", " ", "f", "i", "n", "d", " ", "r", "e", "l", "i", "a", "b", "l", "e", " ", "s", "o", "u", "r", "c", "e", "s", " ", "f", "o", "r", " ", "t", "h", "a", "t", ".">>

\* f"From {t['title']}: {t['summary']}"
Quote(t) == <<"F", "r", "o", "m", " ">> \o t.title \o <<":", " ">> \o t.summary

\* answer citing top instead of summaries
answer_top_only(question, summaries) ==
    IF summaries = <<>>
    THEN [answer |-> NoSourcesAnswer, citations |-> <<>>]
    ELSE LET top == Prefix(summaries, TopCount)
             composed == Join(<<"\n", "\n">>, [k \in 1..Len(top) |-> Quote(top[k])])
         IN  [answer     |-> <<"S", "h", "o", "r", "t", " ", "a", "n", "s", "w", "e", "r", " ", "t", "o", ":", " ">> \o question \o <<"\n", "\n">> \o composed
                             \o <<"\n", "\n", "(", "S", "e", "e", " ", "s", "o", "u", "r", "c", "e", "s", " ", "b", "e", "l", "o", "w", ".", ")">>,
              citations  |-> [k \in 1..Len(top) |-> top[k].source],
              used_count |-> Len(top)]

\* RAGFlow.answer
answer(question, summaries) ==
    IF summaries = <<>>
    THEN [answer |-> NoSourcesAnswer, citations |-> <<>>]
    ELSE LET top == Prefix(summaries, TopCount)
             composed == Join(<<"\n", "\n">>, [k \in 1..Len(top) |-> Quote(top[k])])
         IN  [answer     |-> <<"S", "h", "o", "r", "t", " ", "a", "n", "s", "w", "e", "r", " ", "t", "o", ":", " ">> \o question \o <<"\n", "\n">> \o composed
                             \o <<"\n", "\n", "(", "S", "e", "e", " ", "s", "o", "u", "r", "c", "e", "s", " ", "b", "e", "l", "o", "w", ".", ")">>,
              citations  |-> [k \in 1..Len(summaries) |-> summaries[k].source],
              used_count |-> Len(summaries)]

\* RAGFlow.run, given what self.search(question) returned
run(question, results) ==
    LET validated == validate(results)
    IN  IF ~validated.ok THEN validated
        ELSE LET summaries == summarize(validated.val)
             IN  IF ~summaries.ok THEN summaries
                 ELSE LET final == answer(question, summaries.val)
                      IN  Ok(final @@ [artifacts |->
                                [results |-> results, validated |-> validated.val,
                                 summaries |-> summaries.val]])

\* ------------------------------------ RAGFlow stages on bounded inputs

Repeat(c, n) == [i \in 1..n |-> c]

\* Results a search backend may give: snippets below, at and above the two length
\* limits, domains that repeat across schemes and www., and results that lack a
\* field.
RShortA ==
    [title |-> <<"A", " ", "s", "h", "o", "r", "t">>, url |-> <<"h", "t", "t", "p", "s", ":", "/", "/", "a", ".", "c", "o", "m", "/", "1">>, snippet |-> Repeat("s", 19),
     score |-> [num |-> 9, den |-> 10], fetched_at |-> 0]

RWwwA ==
    [title |-> <<"A", " ", "l", "o", "n", "g">>, url |-> <<"h", "t", "t", "p", ":", "/", "/", "w", "w", "w", ".", "a", ".", "c", "o", "m", "/", "2">>, snippet |-> Repeat("a", 201),
     score |-> [num |-> 8, den |-> 10], fetched_at |-> 0]

RPlainA ==
    [title |-> <<"A", " ", "d", "o", "t", "s">>, url |-> <<"h", "t", "t", "p", "s", ":", "/", "/", "a", ".", "c", "o", "m", "/", "3">>, snippet |-> <<"E", "x", "a", "c", "t", "l", "y", " ", "t", "w", "e", "n", "t", "y", " ", "c", "h", ".", ".", ".">>,
     score |-> [num |-> 7, den |-> 10], fetched_at |-> 0]

RB ==
    [title |-> <<"B">>, url |-> <<"h", "t", "t", "p", "s", ":", "/", "/", "b", ".", "o", "r", "g", "/", "x">>, snippet |-> Repeat("b", 200),
     score |-> [num |-> 6, den |-> 10], fetched_at |-> 0]

RC ==
    [title |-> <<"C">>, url |-> <<"h", "t", "t", "p", "s", ":", "/", "/", "c", ".", "n", "e", "t">>,
     snippet |-> Repeat("c", 199) \o <<" ", "	", "c", "c">>,
     score |-> [num |-> 5, den |-> 10], fetched_at |-> 0]

RNoSnippet ==
    [title |-> <<"D">>, url |-> <<"h", "t", "t", "p", "s", ":", "/", "/", "d", ".", "i", "o", "/", "1">>,
     score |-> [num |-> 4, den |-> 10], fetched_at |-> 0]

RNoUrl ==
    [title |-> <<"E">>, snippet |-> Repeat("e", 30),
     score |-> [num |-> 3, den |-> 10], fetched_at |-> 0]

RNoTitle ==
    [url |-> <<"h", "t", "t", "p", "s", ":", "/", "/", "b", ".", "o", "r", "g", "/", "y">>, snippet |-> Repeat("f", 30),
     score |-> [num |-> 2, den |-> 10], fetched_at |-> 0]

BackendResults == {RShortA, RWwwA, RPlainA, RB, RC, RNoSnippet, RNoUrl, RNoTitle}

\* Every response of at most MaxResults results.
BackendResponses == UNION {[1..n -> BackendResults] : n \in 0..MaxResults}

Questions == {<<"W", "h", "a", "t", " ", "i", "s", " ", "t", "h", "e", " ", "p", "o", "p", "u", "l", "a", "t", "i", "o", "n", " ", "o", "f", " ", "Q", "o", "m", " ", "i", "n", " ", "2", "0", "2", "0", "?">>, <<"v", "e", "r", "i", "f", "y", ":", "x">>}

StubBackend == [kind |-> "stub"]

Injected(rs) == [kind |-> "injected", results |-> rs]

NoCall == [fn |-> "none"]

Pending(op, arg) == [fn |-> "pending", op |-> op, arg |-> arg]

InitPipeline ==
    /\ history = <<>>
    /\ clock = 0
    /\ ncalls = 0
    /\ \/ /\ backend = StubBackend
          /\ \/ call \in {Pending("validate", rs) : rs \in BackendResponses}
             \/ call \in {Pending("summarize", rs) : rs \in BackendResponses}
             \/ \E q \in Questions : \E rs \in BackendResponses :
                   /\ summarize(rs).ok
                   /\ call = Pending("answer", <<q, summarize(rs).val>>)
             \/ call \in {Pending("run", q) : q \in Questions}
       \/ /\ backend \in {Injected(rs) : rs \in BackendResponses}
          /\ call \in {Pending("run", q) : q \in Questions}

\* rag_flow.validate(results)
CallValidate ==
    /\ call.fn = "pending"
    /\ call.op = "validate"
    /\ call' = [fn |-> "validate", arg |-> call.arg, ret |-> validate(call.arg)]
    /\ UNCHANGED <<history, clock, ncalls, backend>>

\* rag_flow.summarize(validated)
CallSummarize ==
    /\ call.fn = "pending"
    /\ call.op = "summarize"
    /\ call' = [fn |-> "summarize", arg |-> call.arg, ret |-> summarize(call.arg)]
    /\ UNCHANGED <<history, clock, ncalls, backend>>

\* rag_flow.answer(question, summaries)
CallAnswer ==
    /\ call.fn = "pending"
    /\ call.op = "answer"
    /\ call' = [fn |-> "answer", arg |-> call.arg,
                ret |-> Ok(answer(call.arg[1], call.arg[2]))]
    /\ UNCHANGED <<history, clock, ncalls, backend>>

\* rag_flow.run(question)
CallRun ==
    /\ call.fn = "pending"
    /\ call.op = "run"
    /\ call' = [fn |-> "run", arg |-> call.arg,
                ret |-> run(call.arg, search(call.arg, clock, backend))]
    /\ UNCHANGED <<history, clock, ncalls, backend>>

NextPipeline == CallValidate \/ CallSummarize \/ CallAnswer \/ CallRun

SpecPipeline == InitPipeline /\ [][NextPipeline]_vars

\* ---------------------------------------------------- RAGFlow claims

\* A validate call that returned.
ValidateReturned == call.fn = "validate" /\ call.ret.ok

SnippetLen(r) == Len(Get(r, "snippet", <<>>))

\* The members of seq that lie in domain d, in order.
InDomain(seq, d) == SelectSeq(seq, LAMBDA r : DomainOf(r.url) = d)

\* The members of seq that lie in domain d and pass the snippet length test.
KeepableInDomain(seq, d) ==
    SelectSeq(seq, LAMBDA r : DomainOf(r.url) = d /\ SnippetLen(r) >= MinSnippetLen)

PairwiseDistinctDomains(out) ==
    \A i, j \in 1..Len(out) : i < j => DomainOf(out[i].url) # DomainOf(out[j].url)

\* C5 (as claimed): the output's domains are pairwise distinct, and of two input
\* results that share a domain the later-ordered one is never in the output.
C5_Original_LaterDuplicateNeverSurvives ==
    ValidateReturned =>
        LET in  == call.arg
            out == call.ret.val
        IN  /\ PairwiseDistinctDomains(out)
            /\ \A i, j \in 1..Len(in) :
                  (i < j /\ DomainOf(in[i].url) = DomainOf(in[j].url) /\ in[i] # in[j])
                  => in[j] \notin Range(out)

\* C5 (amended): the output's domains are pairwise distinct, and of the input
\* results that share a domain exactly the earliest-ordered one whose snippet has
\* at least 20 characters survives; every other one is dropped, and none survives
\* when no snippet in the domain is that long.
C5_FirstKeepableOfEachDomainSurvives ==
    ValidateReturned =>
        LET in  == call.arg
            out == call.ret.val
        IN  /\ PairwiseDistinctDomains(out)
            /\ \A i \in 1..Len(in) :
                  LET d    == DomainOf(in[i].url)
                      keep == KeepableInDomain(in, d)
                  IN  InDomain(out, d) = IF keep = <<>> THEN <<>> ELSE <<keep[1]>>

\* Two results of one domain, both with long enough snippets: the first is kept.
C5_Witness_DuplicateDomainDropped ==
    /\ ValidateReturned
    /\ Len(call.arg) = 2
    /\ DomainOf(call.arg[1].url) = DomainOf(call.arg[2].url)
    /\ call.arg[1] # call.arg[2]
    /\ SnippetLen(call.arg[1]) >= MinSnippetLen
    /\ SnippetLen(call.arg[2]) >= MinSnippetLen
    /\ call.ret.val = <<call.arg[1]>>

RECURSIVE IsSubsequence(_, _)
\* out can be had from in by deleting members: each member of out is matched to
\* the first equal member of in after the previous match.
IsSubsequence(out, in) ==
    IF out = <<>> THEN TRUE
    ELSE IF in = <<>> THEN FALSE
    ELSE IF out[1] = in[1] THEN IsSubsequence(Tail(out), Tail(in))
    ELSE IsSubsequence(out, Tail(in))

\* C9: validate's output is an order-preserving subsequence of its input: no
\* longer than the input, every member an unmodified input result, kept members in
\* their input order.
C9_ValidateOutputIsSubsequence ==
    ValidateReturned =>
        /\ Len(call.ret.val) <= Len(call.arg)
        /\ \A k \in 1..Len(call.ret.val) : call.ret.val[k] \in Range(call.arg)
        /\ IsSubsequence(call.ret.val, call.arg)

\* Three results in, the middle one dropped, the other two kept in order.
C9_Witness_TwoKeptOneDropped ==
    /\ ValidateReturned
    /\ Len(call.arg) = 3
    /\ call.ret.val = <<call.arg[1], call.arg[3]>>
    /\ call.arg[1] # call.arg[3]

EndsWithEllipsis(s) == Len(s) >= 3 /\ SubSeq(s, Len(s) - 2, Len(s)) = Ellipsis

\* Summary k is built from result k: its source is that url, its title that title,
\* and it begins with the snippet's first 200 characters less trailing whitespace.
BuiltFrom(summary, r) ==
    LET head == rstrip(Prefix(Get(r, "snippet", <<>>), SummaryLen))
    IN  /\ summary.source = r.url
        /\ summary.title = r.title
        /\ Len(summary.summary) >= Len(head)
        /\ SubSeq(summary.summary, 1, Len(head)) = head

SummarizeReturned == call.fn = "summarize" /\ call.ret.ok

\* C8 (as claimed): one summary per result, in order; a summary ends with "..." if
\* its snippet is longer than 200 characters and does not if it is not.
C8_Original_EllipsisIffLongSnippet ==
    SummarizeReturned =>
        /\ Len(call.ret.val) = Len(call.arg)
        /\ \A k \in 1..Len(call.arg) :
              /\ BuiltFrom(call.ret.val[k], call.arg[k])
              /\ EndsWithEllipsis(call.ret.val[k].summary) = (SnippetLen(call.arg[k]) > SummaryLen)

\* C8 (amended): one summary per result, in order; a summary ends with "..." if its
\* snippet is longer than 200 characters; for a snippet of 200 characters or fewer
\* nothing is added, so the summary ends with "..." only if the snippet, less its
\* trailing whitespace, already does.
C8_EllipsisAddedIffLongSnippet ==
    SummarizeReturned =>
        /\ Len(call.ret.val) = Len(call.arg)
        /\ \A k \in 1..Len(call.arg) :
              LET snippet == Get(call.arg[k], "snippet", <<>>)
                  summary == call.ret.val[k].summary
              IN  /\ BuiltFrom(call.ret.val[k], call.arg[k])
                  /\ Len(snippet) > SummaryLen => EndsWithEllipsis(summary)
                  /\ Len(snippet) <= SummaryLen =>
                        /\ EndsWithEllipsis(summary) = EndsWithEllipsis(rstrip(snippet))
                        /\ Len(summary) = Len(rstrip(snippet))

\* A snippet of exactly 200 characters, one longer, and a short one that itself
\* ends with "...", summarized in one call.
C8_Witness_BothSidesOfLimit ==
    /\ SummarizeReturned
    /\ Len(call.arg) = 3
    /\ SnippetLen(call.arg[1]) = SummaryLen
    /\ ~EndsWithEllipsis(call.ret.val[1].summary)
    /\ SnippetLen(call.arg[2]) > SummaryLen
    /\ EndsWithEllipsis(call.ret.val[2].summary)
    /\ SnippetLen(call.arg[3]) < SummaryLen
    /\ EndsWithEllipsis(call.ret.val[3].summary)

\* The answer text for the quoted summaries, written out.
AnswerText(question, quoted) ==
    <<"S", "h", "o", "r", "t", " ", "a", "n", "s", "w", "e", "r", " ", "t", "o", ":", " ">> \o question \o <<"\n", "\n">>
    \o (IF Len(quoted) = 1 THEN Quote(quoted[1])
        ELSE Quote(quoted[1]) \o <<"\n", "\n">> \o Quote(quoted[2]))
    \o <<"\n", "\n", "(", "S", "e", "e", " ", "s", "o", "u", "r", "c", "e", "s", " ", "b", "e", "l", "o", "w", ".", ")">>

\* C10: with no summaries answer returns the fixed no-sources answer and no
\* citations; with N > 0 it cites every summary's source in order, sets
\* used_count = N, and quotes only the first min(2, N) summaries, in order.
C10_AnswerCitesAllQuotesTwo ==
    call.fn = "answer" =>
        LET question  == call.arg[1]
            summaries == call.arg[2]
            out       == call.ret.val
            N         == Len(summaries)
        IN  /\ call.ret.ok
            /\ N = 0 =>
                  /\ out.answer = NoSourcesAnswer
                  /\ out.citations = <<>>
            /\ N > 0 =>
                  /\ Len(out.citations) = N
                  /\ \A k \in 1..N : out.citations[k] = summaries[k].source
                  /\ out.used_count = N
                  /\ out.answer = AnswerText(question, SubSeq(summaries, 1, Min(2, N)))

\* Three summaries: all three cited, two quoted.
C10_Witness_ThreeSummaries ==
    /\ call.fn = "answer"
    /\ Len(call.arg[2]) = 3
    /\ Len(call.ret.val.citations) = 3
    /\ call.arg[2][3].source # call.arg[2][2].source

\* C4: every result of answer and of run, with or without summaries, carries
\* answer, citations and used_count, and used_count is the number of summaries.
C4_ResultAlwaysHasUsedCount ==
    /\ call.fn = "answer" =>
          /\ {"answer", "citations", "used_count"} \subseteq DOMAIN call.ret.val
          /\ call.ret.val.used_count = Len(call.arg[2])
    /\ (call.fn = "run" /\ call.ret.ok) =>
          /\ {"answer", "citations", "used_count"} \subseteq DOMAIN call.ret.val
          /\ call.ret.val.used_count = Len(call.ret.val.artifacts.summaries)

\* What the docstring of search expects of every result.
RequiredFields == {"title", "url", "snippet", "score"}

\* C6: when the backend returns a result that lacks a required field, run fails;
\* it never goes on to return a result.
C6_MalformedResultFailsRun ==
    (/\ call.fn = "run"
     /\ backend.kind = "injected"
     /\ \E k \in 1..Len(backend.results) :
           ~(RequiredFields \subseteq DOMAIN backend.results[k]))
    => ~call.ret.ok

\* ------------------------------------------------ ConversationAgent

USER == <<"u", "s", "e", "r">>

ASSISTANT == <<"a", "s", "s", "i", "s", "t", "a", "n", "t">>

\* append_human with history.insert(0, ...)
append_human_front(h, text, now) == <<[role |-> USER, text |-> text, ts |-> now]>> \o h

\* ConversationAgent.append_human
append_human(h, text, now) == Append(h, [role |-> USER, text |-> text, ts |-> now])

\* ConversationAgent.append_assistant
append_assistant(h, text, now) == Append(h, [role |-> ASSISTANT, text |-> text, ts |-> now])

\* tail = self.history[-6:]
ContextTurns == 6

\* s[-n:]
Suffix(s, n) == SubSeq(s, IF Len(s) > n THEN Len(s) - n + 1 ELSE 1, Len(s))

\* ConversationAgent.context_summary
context_summary(h) ==
    LET tail == Suffix(h, ContextTurns)
    IN  Join(<<"\n">>, [k \in 1..Len(tail) |-> tail[k].role \o <<":", " ">> \o tail[k].text])

\* message[:200]
HeardLen == 200

\* ctx[:400]
ContextLen == 400

\* ConversationAgent._chat_reply_stub
chat_reply_stub(h, message) ==
    <<"(", "c", "h", "a", "t", ")", " ", "I", " ", "h", "e", "a", "r", "d", ":", " ", "'">> \o Prefix(message, HeardLen) \o <<"'", " ", "-", "-", " ", "c", "o", "n", "t", "e", "x", "t", ":", "\n">>
    \o Prefix(context_summary(h), ContextLen)

\* get_reply appending an assistant turn before the failure leaves it
get_reply_records_failure(h, message, now, b) ==
    LET h1       == append_human(h, message, now)
        decision == is_specific_question(message)
    IN  IF decision[1]
        THEN LET rag_result == run(message, search(message, now, b))
             IN  IF ~rag_result.ok
                 THEN [history |-> append_assistant(h1, <<"e", "r", "r", "o", "r">>, now), ret |-> rag_result]
                 ELSE [history |-> append_assistant(h1, rag_result.val.answer, now),
                       ret |-> Ok([type |-> "rag", payload |-> rag_result.val,
                                   diagnostic |-> decision[2]])]
        ELSE LET chat_response == chat_reply_stub(h1, message)
             IN  [history |-> append_assistant(h1, chat_response, now),
                  ret |-> Ok([type |-> "chat", payload |-> [reply |-> chat_response],
                              diagnostic |-> decision[2]])]

\* ConversationAgent.get_reply on history h: the history it leaves and what it
\* returns or raises.
get_reply(h, message, now, b) ==
    LET h1       == append_human(h, message, now)
        decision == is_specific_question(message)
    IN  IF decision[1]
        THEN LET rag_result == run(message, search(message, now, b))
             IN  IF ~rag_result.ok
                 THEN [history |-> h1, ret |-> rag_result]
                 ELSE [history |-> append_assistant(h1, rag_result.val.answer, now),
                       ret |-> Ok([type |-> "rag", payload |-> rag_result.val,
                                   diagnostic |-> decision[2]])]
        ELSE LET chat_response == chat_reply_stub(h1, message)
             IN  [history |-> append_assistant(h1, chat_response, now),
                  ret |-> Ok([type |-> "chat", payload |-> [reply |-> chat_response],
                              diagnostic |-> decision[2]])]

\* Messages a user sends: one the Router keeps on the chat path, two it routes.
AgentMessages ==
    {<<"h", "e", "y", ",", " ", "h", "o", "w", "'", "s", " ", "i", "t", " ", "g", "o", "i", "n", "g", "?">>, <<"W", "h", "a", "t", " ", "i", "s", " ", "t", "h", "e", " ", "p", "o", "p", "u", "l", "a", "t", "i", "o", "n", " ", "o", "f", " ", "Q", "o", "m", " ", "i", "n", " ", "2", "0", "2", "0", "?">>,
     <<"v", "e", "r", "i", "f", "y", ":", "s", "o", "u", "r", "c", "e", "s">>}

\* What the search backend gives during a routed call.
AgentBackends ==
    {StubBackend, Injected(<<RPlainA, RB, RC>>), Injected(<<RNoUrl>>),
     Injected(<<RB, RNoTitle>>)}

Init ==
    /\ history = <<>>
    /\ clock = 0
    /\ ncalls = 0
    /\ backend = StubBackend
    /\ call = NoCall

\* agent.get_reply(message); b is what the search backend gives if it is asked.
GetReply(message, b) ==
    /\ ncalls < MaxCalls
    /\ LET out == get_reply(history, message, clock, b)
       IN  /\ history' = out.history
           /\ call' = [fn |-> "get_reply", arg |-> message, ret |-> out.ret]
    /\ backend' = IF is_specific_question(message)[1] THEN b ELSE backend
    /\ ncalls' = ncalls + 1
    /\ UNCHANGED clock

\* Time passes between calls: now_ts() reads the clock, and every now_ts() of one
\* get_reply call reads the same value.
Tick ==
    /\ clock < MaxClock
    /\ clock' = clock + 1
    /\ UNCHANGED <<history, ncalls, backend, call>>

Next ==
    \/ \E message \in AgentMessages : \E b \in AgentBackends : GetReply(message, b)
    \/ Tick

Spec == Init /\ [][Next]_vars

\* -------------------------------------------- ConversationAgent claims

\* The text get_reply's return value carries as the reply.
ReplyText(ret) ==
    IF ret.val.type = "rag" THEN ret.val.payload.answer ELSE ret.val.payload.reply

\* The roles and texts of history, without the timestamps.
Turns(h) == [k \in 1..Len(h) |-> <<h[k].role, h[k].text>>]

\* C3: each successful get_reply call appends exactly two entries to the history,
\* the user entry with the incoming message and then the assistant entry with the
\* reply text, and leaves every earlier entry as it was, in place.
C3_SuccessfulCallAppendsUserThenAssistant ==
    [][(ncalls' = ncalls + 1 /\ call'.ret.ok)
        => /\ Len(history') = Len(history) + 2
           /\ SubSeq(history', 1, Len(history)) = history
           /\ Turns(history') = Turns(history)
                 \o <<<<USER, call'.arg>>, <<ASSISTANT, ReplyText(call'.ret)>>>>]_vars

\* Two successful calls, the first on the chat path and the second routed.
C3_Witness_ChatThenRag ==
    /\ ncalls = 2
    /\ call.fn = "get_reply"
    /\ call.ret.ok
    /\ call.ret.val.type = "rag"
    /\ Len(history) = 4
    /\ history[1].role = USER
    /\ history[2].role = ASSISTANT
    /\ history[2].text # history[4].text
    /\ history[3].text = call.arg
    /\ history[4].text = call.ret.val.payload.answer

\* The RAG stages fail on what the backend gave for this routed message.
StageFails(message, now, b) ==
    /\ is_specific_question(message)[1]
    /\ ~run(message, search(message, now, b)).ok

\* C7: when a RAG stage fails during a routed get_reply call, the failure reaches
\* get_reply's caller instead of a result, and the history has gained exactly the
\* user entry and no assistant entry.
C7_StageFailureSurfacesAfterUserEntry ==
    [][(ncalls' = ncalls + 1 /\ StageFails(call'.arg, clock, backend'))
        => /\ call'.ret = run(call'.arg, search(call'.arg, clock, backend'))
           /\ ~call'.ret.ok
           /\ "val" \notin DOMAIN call'.ret
           /\ history' = Append(history, [role |-> USER, text |-> call'.arg, ts |-> clock])]_vars

\* A successful call, then a routed call whose stage failed: three entries, the
\* last one the user's.
C7_Witness_FailureAfterSuccess ==
    /\ ncalls = 2
    /\ call.fn = "get_reply"
    /\ ~call.ret.ok
    /\ call.ret.exc = "KeyError"
    /\ Len(history) = 3
    /\ history[2].role = ASSISTANT
    /\ history[3].role = USER
    /\ history[3].text = call.arg

=============================================================================
